---- MODULE Spec2Model ----
(***************************************************************************)
(* Model of the wildfire_detection training harness: the training engine  *)
(* (models.train), checkpointing (SaveableModel.save), the two dataset    *)
(* splitting policies (datasets.py) and model composition                  *)
(* (models.generate_models).                                               *)
(*                                                                         *)
(* Accuracies are exact rationals.  Every validation batch contributes an *)
(* accuracy of a/MaxAcc (a in 0..MaxAcc); the epoch's validation accuracy *)
(* is the sum of these divided by len(loaders.valid).  The model keeps    *)
(* the numerators; the denominator MaxAcc * len(loaders.valid) is the     *)
(* same for every epoch of a run.  eps_early_stopping is e/MaxAcc.        *)
(***************************************************************************)
EXTENDS Integers, Sequences, FiniteSets, TLC

\* ------------------------------------------------------------------ bounds
MaxEpochs  == 8     \* small epoch caps 0 .. MaxEpochs
MaxBatches == 2     \* len(loaders.train), len(loaders.valid) in 0 .. MaxBatches
MaxAcc     == 1     \* a batch accuracy is one of 0/MaxAcc .. MaxAcc/MaxAcc
MaxEps     == 1     \* eps_early_stopping is one of 1/MaxAcc .. MaxEps/MaxAcc
MaxSaveEpoch == 10  \* save(epoch) is called with the epochs SaveEpochs up to this
MaxSaves   == 2     \* save calls in one run of the checkpointing specification
MaxParam   == 1     \* parameter states 0 .. MaxParam
MaxExtractors == 2  \* entries of the feature_extractions dict
MaxShape   == 2     \* an output_shape is (a, b) with a, b in 1 .. MaxShape
MaxRows    == 3     \* rows of the annotation table
MaxTrainIdx == 3    \* entries of a caller-supplied train_index
PctDen     == 4     \* percentages are 0/PctDen .. PctDen/PctDen

\* ------------------------------------------------------- program constants
SchedulerEpochs == 100   \* OneCycleLR(..., epochs = 100, ...)
PatienceLimit   == 5     \* if count_occurence_no_change > 5
BATCH_SIZE      == 32    \* main.py: BATCH_SIZE = 32
NoEpoch         == -1    \* the loop variable `epoch` before range() binds it
TrainIndexLen   == 2744  \* main.py: train_index = list(range(2744))

VARIABLES
    \* ---- train(model, loaders, epochs, ..., eps_early_stopping)
    pc,                         \* position in train
    epochs,                     \* parameter epochs
    eps_early_stopping,         \* parameter eps_early_stopping (numerator)
    loaders,                    \* [train, valid]: number of batches of each loader
    epoch,                      \* loop variable of  for epoch in range(epochs)
    batch_num,                  \* loop variable of the batch loops
    mode,                       \* model.train() / model.eval()
    previous_val_accuracy,      \* numerator over the run's denominator
    val_accuracy,               \* running sum, then the epoch's mean (numerator)
    count_occurence_no_change,
    optimizer_steps,            \* calls of optimizer.step()
    scheduler_steps,            \* calls of scheduler.step()
    scheduler_total,            \* OneCycleLR.total_steps
    error,                      \* the exception that aborted the run, or "none"
    stopped_early,              \* the loop was left by `break`
    notices,                    \* [saved, finished]: notify(...) counts
    \* ---- SaveableModel
    name,                       \* self.name
    params,                     \* self.state_dict(), as a version number
    dir_exists,                 \* os.path.exists("models_saved")
    files,                      \* path -> content of the files under models_saved
    save_log,                   \* the (name, epoch, params) of every save call, in order
    \* ---- datasets.py: the dataset and its split
    dataset,                    \* the constructed ESCDataset / ESCDatasetBin
    split,                      \* the TrainValidTestDataset of the last train_test_split
    split_pc,                   \* "new", "split", "loaded", "got" or "raised"
    split_loaders,              \* the TrainValidTestDataLoader of into_loaders
    prev_sizes,                 \* sizes of the split before the last one (history)
    get_result,                 \* [index, outcome] of the last dataset[index]
    \* ---- generate_models(feature_extractions, classifier, classifier_name)
    feature_extractions,        \* the dict, as its items in insertion order
    classifier,                 \* the classifier class: the keywords __init__ takes
    classifier_name,
    models,                     \* the list built so far
    gen_pc,                     \* "loop", "returned" or "raised"
    forward_calls,              \* forward passes run on any model
    \* ---- main.py
    main_pc,                    \* position in the launch script
    main_error,                 \* the exception that ended the script, or "none"
    train_calls,                \* the (model, loaders) of the train calls of the script
    \* ---- history (not program state)
    acc_trace,                  \* validation accuracies of the last two epochs
    last_reset                  \* last epoch whose accuracy moved by >= eps

trainVars == <<pc, epochs, eps_early_stopping, loaders, epoch, batch_num, mode,
               previous_val_accuracy, val_accuracy, count_occurence_no_change,
               optimizer_steps, scheduler_steps, scheduler_total, error,
               stopped_early, notices>>
saveVars  == <<name, params, dir_exists, files, save_log>>
histVars  == <<acc_trace, last_reset>>
splitVars == <<dataset, split, split_pc, split_loaders, prev_sizes, get_result>>
genVars   == <<feature_extractions, classifier, classifier_name, models, gen_pc>>
mainVars  == <<main_pc, main_error, train_calls>>
vars      == <<trainVars, saveVars, histVars, splitVars, genVars, forward_calls,
               mainVars>>

\* ------------------------------------------------------------ pure helpers
Abs(x) == IF x < 0 THEN -x ELSE x

Digit(d) ==
    CASE d = 0 -> "0" [] d = 1 -> "1" [] d = 2 -> "2" [] d = 3 -> "3"
      [] d = 4 -> "4" [] d = 5 -> "5" [] d = 6 -> "6" [] d = 7 -> "7"
      [] d = 8 -> "8" [] d = 9 -> "9"

\* str(n) of a non-negative int, as the f-string formats it
RECURSIVE IntToStr(_)
IntToStr(n) == IF n < 10 THEN Digit(n) ELSE IntToStr(n \div 10) \o Digit(n % 10)

\* SaveableModel.save_path: os.path.join("models_saved", f"{self.name}_{epoch}.pth")
save_path_wrong(model_name, e) == "models_saved/" \o model_name \o ".pth"
save_path(model_name, e) ==
    "models_saved/" \o model_name \o "_" \o IntToStr(e) \o ".pth"

\* torch.save(self.state_dict(), path): creates or overwrites the one file at path
torch_save(fs, path, content) ==
    [p \in (DOMAIN fs) \cup {path} |-> IF p = path THEN content ELSE fs[p]]

\* the early-stopping comparison  abs(previous_val_accuracy - val_accuracy) < eps,
\* both accuracies over the denominator MaxAcc * n, eps over MaxAcc
no_change_le(prev, val, eps, n) == Abs(prev - val) <= eps * n
no_change(prev, val, eps, n) == Abs(prev - val) < eps * n

\* the early-stopping threshold  count_occurence_no_change > 5
should_stop_ge(count) == count >= PatienceLimit
should_stop(count) == count > PatienceLimit

\* where the early stop leaves the epoch loop:  break  goes to the statement
\* after the for loop
break_missing == "for_epoch"
break_target == "after_loop"

\* OneCycleLR(optimizer, max_lr, epochs = 100, steps_per_epoch = len(loaders.train))
scheduler_budget(steps_per_epoch) == SchedulerEpochs * steps_per_epoch

\* ------------------------------------------------------ SaveableModel.save
\* save_path creates models_saved when absent; torch.save writes the file
save(e) ==
    /\ dir_exists' = TRUE
    /\ files' = torch_save(files, save_path(name, e), params)
    /\ save_log' = Append(save_log, [name |-> name, epoch |-> e, params |-> params])
    /\ UNCHANGED name

\* an exception leaves train: nothing after the raising statement runs
raise(exc) ==
    /\ pc' = "aborted"
    /\ error' = exc

\* ------------------------------------------------------------------ train
EpochCaps == (0 .. MaxEpochs) \cup {SchedulerEpochs + 1}

TrainStart ==
    /\ pc = "start"
    /\ epochs \in EpochCaps
    /\ eps_early_stopping \in 1 .. MaxEps
    /\ loaders \in [train : 0 .. MaxBatches, valid : 0 .. MaxBatches]
    /\ epoch = NoEpoch
    /\ batch_num = 0
    /\ mode = "train"
    /\ previous_val_accuracy = 0
    /\ val_accuracy = 0
    /\ count_occurence_no_change = 0
    /\ optimizer_steps = 0
    /\ scheduler_steps = 0
    /\ scheduler_total = 0
    /\ error = "none"
    /\ stopped_early = FALSE
    /\ notices = [saved |-> 0, finished |-> 0]
    /\ forward_calls = 0
    /\ acc_trace = <<0, 0>>
    /\ last_reset = NoEpoch

\* no train call is running
TrainIdle ==
    /\ pc = "idle"
    /\ epochs = 0
    /\ eps_early_stopping = 1
    /\ loaders = [train |-> 0, valid |-> 0]
    /\ epoch = NoEpoch
    /\ batch_num = 0
    /\ mode = "train"
    /\ previous_val_accuracy = 0
    /\ val_accuracy = 0
    /\ count_occurence_no_change = 0
    /\ optimizer_steps = 0
    /\ scheduler_steps = 0
    /\ scheduler_total = 0
    /\ error = "none"
    /\ stopped_early = FALSE
    /\ notices = [saved |-> 0, finished |-> 0]
    /\ forward_calls = 0
    /\ acc_trace = <<0, 0>>
    /\ last_reset = NoEpoch

\* no dataset is being split
SplitIdle ==
    /\ dataset = [policy |-> "none"]
    /\ split = [train |-> << >>, valid |-> << >>, test |-> << >>]
    /\ split_pc = "idle"
    /\ split_loaders = [train |-> 0, valid |-> 0, test |-> 0]
    /\ prev_sizes = << >>
    /\ get_result = [index |-> 0, outcome |-> "none"]

\* main.py is not running
MainIdle ==
    /\ main_pc = "idle"
    /\ main_error = "none"
    /\ train_calls = << >>

\* generate_models is not running
GenIdle ==
    /\ feature_extractions = << >>
    /\ classifier = {}
    /\ classifier_name = ""
    /\ models = << >>
    /\ gen_pc = "idle"

TrainInit ==
    /\ TrainStart
    /\ MainIdle
    /\ name = "spectrogram_cnn_bardou"
    /\ params = 0
    /\ dir_exists = FALSE
    /\ files = << >>
    /\ save_log = << >>
    /\ SplitIdle
    /\ GenIdle

\* lines 47-60: optimizer, scheduler, early-stopping state.  OneCycleLR rejects
\* steps_per_epoch <= 0 with a ValueError.
StartTraining ==
    /\ pc = "start"
    /\ IF loaders.train <= 0
          THEN /\ raise("ValueError")
               /\ UNCHANGED <<scheduler_total, previous_val_accuracy,
                              count_occurence_no_change>>
          ELSE /\ scheduler_total' = scheduler_budget(loaders.train)
               /\ previous_val_accuracy' = 0
               /\ count_occurence_no_change' = 0
               /\ pc' = "for_epoch"
               /\ UNCHANGED error
    /\ UNCHANGED <<epochs, eps_early_stopping, loaders, epoch, batch_num, mode,
                   val_accuracy, optimizer_steps, scheduler_steps, stopped_early,
                   notices, saveVars, histVars>>
    /\ UNCHANGED <<splitVars, genVars, forward_calls, mainVars>>

\* lines 61-65: for epoch in range(epochs), then model.train()
ForEpoch ==
    /\ pc = "for_epoch"
    /\ IF epoch + 1 < epochs
          THEN /\ epoch' = epoch + 1
               /\ mode' = "train"
               /\ batch_num' = 0
               /\ pc' = "train_batch"
          ELSE /\ pc' = "after_loop"
               /\ UNCHANGED <<epoch, mode, batch_num>>
    /\ UNCHANGED <<epochs, eps_early_stopping, loaders, previous_val_accuracy,
                   val_accuracy, count_occurence_no_change, optimizer_steps,
                   scheduler_steps, scheduler_total, error, stopped_early,
                   notices, saveVars, histVars>>
    /\ UNCHANGED <<splitVars, genVars, forward_calls, mainVars>>

\* lines 66-81, one train batch.  The forward pass, the loss or backward may
\* raise; optimizer.step() may raise; scheduler.step() raises a ValueError once
\* it is stepped more than total_steps times.
TrainBatch ==
    /\ pc = "train_batch"
    /\ batch_num < loaders.train
    /\ \/ /\ raise("ComputationError")
          /\ UNCHANGED <<batch_num, optimizer_steps, scheduler_steps, params>>
       \/ /\ raise("OptimizerError")
          /\ UNCHANGED <<batch_num, optimizer_steps, scheduler_steps, params>>
       \/ /\ optimizer_steps' = optimizer_steps + 1
          /\ params' = params + 1
          /\ IF scheduler_steps + 1 > scheduler_total
                THEN /\ raise("SchedulerValueError")
                     /\ UNCHANGED <<batch_num, scheduler_steps>>
                ELSE /\ scheduler_steps' = scheduler_steps + 1
                     /\ batch_num' = batch_num + 1
                     /\ UNCHANGED <<pc, error>>
    /\ UNCHANGED <<epochs, eps_early_stopping, loaders, epoch, mode,
                   previous_val_accuracy, val_accuracy, count_occurence_no_change,
                   scheduler_total, stopped_early, notices,
                   name, dir_exists, files, save_log, histVars>>
    /\ forward_calls' = forward_calls + 1
    /\ UNCHANGED <<splitVars, genVars, mainVars>>

\* lines 83-93: the train means (len(loaders.train) > 0 here), model.eval(),
\* the validation accumulators
EndTrainPhase ==
    /\ pc = "train_batch"
    /\ batch_num = loaders.train
    /\ mode' = "eval"
    /\ val_accuracy' = 0
    /\ batch_num' = 0
    /\ pc' = "valid_batch"
    /\ UNCHANGED <<epochs, eps_early_stopping, loaders, epoch,
                   previous_val_accuracy, count_occurence_no_change,
                   optimizer_steps, scheduler_steps, scheduler_total, error,
                   stopped_early, notices, saveVars, histVars>>
    /\ UNCHANGED <<splitVars, genVars, forward_calls, mainVars>>

\* a validation batch that steps the scheduler as a train batch does
ValidBatch_stepping ==
    /\ pc = "valid_batch"
    /\ batch_num < loaders.valid
    /\ \/ /\ raise("ComputationError")
          /\ UNCHANGED <<batch_num, val_accuracy, scheduler_steps>>
       \/ /\ \E acc \in 0 .. MaxAcc : val_accuracy' = val_accuracy + acc
          /\ batch_num' = batch_num + 1
          /\ scheduler_steps' = scheduler_steps + 1
          /\ UNCHANGED <<pc, error>>
    /\ UNCHANGED <<epochs, eps_early_stopping, loaders, epoch, mode,
                   previous_val_accuracy, count_occurence_no_change,
                   optimizer_steps, scheduler_total,
                   stopped_early, notices, saveVars, histVars>>
    /\ forward_calls' = forward_calls + 1
    /\ UNCHANGED <<splitVars, genVars, mainVars>>

\* lines 94-100, one validation batch: no backward, no optimizer or scheduler step
ValidBatch ==
    /\ pc = "valid_batch"
    /\ batch_num < loaders.valid
    /\ \/ /\ raise("ComputationError")
          /\ UNCHANGED <<batch_num, val_accuracy>>
       \/ /\ \E acc \in 0 .. MaxAcc : val_accuracy' = val_accuracy + acc
          /\ batch_num' = batch_num + 1
          /\ UNCHANGED <<pc, error>>
    /\ UNCHANGED <<epochs, eps_early_stopping, loaders, epoch, mode,
                   previous_val_accuracy, count_occurence_no_change,
                   optimizer_steps, scheduler_steps, scheduler_total,
                   stopped_early, notices, saveVars, histVars>>
    /\ forward_calls' = forward_calls + 1
    /\ UNCHANGED <<splitVars, genVars, mainVars>>

\* lines 102-106: val_accuracy / len(loaders.valid) (ZeroDivisionError for an
\* empty loader: the accumulator is still the int 0), then the progress line.
\* The quotient keeps the numerator val_accuracy over MaxAcc * len(loaders.valid).
EndValidPhase ==
    /\ pc = "valid_batch"
    /\ batch_num = loaders.valid
    /\ IF loaders.valid = 0
          THEN /\ raise("ZeroDivisionError")
               /\ UNCHANGED histVars
          ELSE /\ pc' = "early_stopping"
               /\ acc_trace' = <<acc_trace[2], val_accuracy>>
               /\ last_reset' =
                     IF Abs(acc_trace[2] - val_accuracy) >= eps_early_stopping * loaders.valid
                       THEN epoch ELSE last_reset
               /\ UNCHANGED error
    /\ UNCHANGED <<epochs, eps_early_stopping, loaders, epoch, batch_num, mode,
                   previous_val_accuracy, val_accuracy, count_occurence_no_change,
                   optimizer_steps, scheduler_steps, scheduler_total,
                   stopped_early, notices, saveVars>>
    /\ UNCHANGED <<splitVars, genVars, forward_calls, mainVars>>

\* lines 108-118: the early-stopping check; on a stop the checkpoint and both
\* notices, then break
EarlyStoppingCheck ==
    /\ pc = "early_stopping"
    /\ LET count == IF no_change(previous_val_accuracy, val_accuracy,
                                 eps_early_stopping, loaders.valid)
                      THEN count_occurence_no_change + 1
                      ELSE 0
       IN /\ count_occurence_no_change' = count
          /\ IF should_stop(count)
                THEN /\ save(epoch)
                     /\ notices' = [saved |-> notices.saved + 1,
                                    finished |-> notices.finished + 1]
                     /\ stopped_early' = TRUE
                     /\ pc' = break_target
                     /\ UNCHANGED previous_val_accuracy
                ELSE /\ previous_val_accuracy' = val_accuracy
                     /\ pc' = "for_epoch"
                     /\ UNCHANGED <<stopped_early, notices, saveVars>>
    /\ UNCHANGED <<epochs, eps_early_stopping, loaders, epoch, batch_num, mode,
                   val_accuracy, optimizer_steps, scheduler_steps,
                   scheduler_total, error, params, histVars>>
    /\ UNCHANGED <<splitVars, genVars, forward_calls, mainVars>>

\* lines 119-122: the save after the loop, reached after a break too.  With
\* epochs = 0 the name `epoch` was never bound: UnboundLocalError.
AfterLoop ==
    /\ pc = "after_loop"
    /\ IF epoch = NoEpoch
          THEN /\ raise("UnboundLocalError")
               /\ UNCHANGED <<notices, saveVars>>
          ELSE /\ save(epoch)
               /\ notices' = [saved |-> notices.saved + 1,
                              finished |-> notices.finished + 1]
               /\ pc' = "done"
               /\ UNCHANGED <<error, params>>
    /\ UNCHANGED <<epochs, eps_early_stopping, loaders, epoch, batch_num, mode,
                   previous_val_accuracy, val_accuracy, count_occurence_no_change,
                   optimizer_steps, scheduler_steps, scheduler_total,
                   stopped_early, histVars>>
    /\ UNCHANGED <<splitVars, genVars, forward_calls, mainVars>>

Next ==
    \/ StartTraining
    \/ ForEpoch
    \/ TrainBatch
    \/ EndTrainPhase
    \/ ValidBatch
    \/ EndValidPhase
    \/ EarlyStoppingCheck
    \/ AfterLoop

Spec == TrainInit /\ [][Next]_vars

\* ------------------------------------------- checkpointing on its own
\* Several SaveableModel objects (one per name) save at arbitrary epochs while
\* their parameters change between the calls.
ModelNames == {"cnn", "cnn_1"}
\* epochs of one and of two digits
SaveEpochs == {e \in 0 .. MaxSaveEpoch : e < 2 \/ e >= 10}

SaveInit ==
    /\ TrainIdle
    /\ MainIdle
    /\ name \in ModelNames
    /\ params \in 0 .. MaxParam
    /\ dir_exists \in BOOLEAN
    /\ files = << >>
    /\ save_log = << >>
    /\ SplitIdle
    /\ GenIdle

\* SaveableModel.__init__ sets self.name; the parameters are whatever training
\* left in the module: the next call is on the model `name` in state `params`
SelectModel ==
    /\ \E n \in ModelNames, q \in 0 .. MaxParam :
          /\ <<n, q>> # <<name, params>>
          /\ name' = n
          /\ params' = q
    /\ UNCHANGED <<trainVars, dir_exists, files, save_log, histVars>>
    /\ UNCHANGED <<splitVars, genVars, forward_calls, mainVars>>

\* model.save(epoch = e)
SaveCall ==
    /\ Len(save_log) < MaxSaves
    /\ \E e \in SaveEpochs : save(e)
    /\ UNCHANGED <<trainVars, params, histVars>>
    /\ UNCHANGED <<splitVars, genVars, forward_calls, mainVars>>

SaveNext ==
    \/ SelectModel
    \/ SaveCall

SaveSpec == SaveInit /\ [][SaveNext]_vars

\* -------------------------------------------------------- generate_models
\* sep.join(names)
RECURSIVE Join(_, _)
Join(names, sep) ==
    IF names = << >> THEN ""
    ELSE IF Len(names) = 1 THEN names[1]
    ELSE names[1] \o sep \o Join(Tail(names), sep)

\* SequentialSaveableModel.__init__(*seq): the modules in order, the name the
\* "_"-join of the names
SequentialSaveableModel_reversed(seq) ==
    [name   |-> Join([i \in 1 .. Len(seq) |-> seq[Len(seq) + 1 - i][2]], "_"),
     stages |-> [i \in 1 .. Len(seq) |-> seq[Len(seq) + 1 - i][1]]]
SequentialSaveableModel(seq) ==
    [name   |-> Join([i \in 1 .. Len(seq) |-> seq[i][2]], "_"),
     stages |-> [i \in 1 .. Len(seq) |-> seq[i][1]]]

\* classifier_kwarg["input_size"] = feature_extraction.output_shape
classifier_kwarg_transposed(feature_extraction) ==
    [input_size |-> <<feature_extraction.output_shape[2],
                      feature_extraction.output_shape[1]>>]
classifier_kwarg(feature_extraction) ==
    [input_size |-> feature_extraction.output_shape]

\* classifier(**kwarg): Python raises TypeError for a keyword __init__ does
\* not take and for a parameter of __init__ left without a value
accepts(cls, kwarg) == DOMAIN kwarg = cls

ExtractorNames  == {"spectrogram", "mel_spectrogram", "cochleagram"}
ClassifierNames == {"cnn_bardou", "crnn_zhang"}
Shapes          == (1 .. MaxShape) \X (1 .. MaxShape)
\* the __init__ keywords of CNNBardou, of a classifier that names its input
\* otherwise, and of one that needs a second argument
ClassifierClasses == {{"input_size"}, {"in_size"}, {"input_size", "n_classes"}}

\* the items of a dict: distinct keys, in insertion order
DictItems ==
    UNION {{d \in [1 .. k -> [name : ExtractorNames, output_shape : Shapes]] :
              \A i, j \in 1 .. k : i # j => d[i].name # d[j].name} :
           k \in 0 .. MaxExtractors}

GenInit ==
    /\ TrainIdle
    /\ MainIdle
    /\ name = ""
    /\ params = 0
    /\ dir_exists = FALSE
    /\ files = << >>
    /\ save_log = << >>
    /\ SplitIdle
    /\ feature_extractions \in DictItems
    /\ classifier \in ClassifierClasses
    /\ classifier_name \in ClassifierNames
    /\ models = << >>
    /\ gen_pc = "loop"

\* lines 147-155, one iteration: the extractor is instantiated, the classifier
\* is constructed with input_size, the two are composed and appended
GenerateOne ==
    /\ gen_pc = "loop"
    /\ Len(models) < Len(feature_extractions)
    /\ LET fe     == feature_extractions[Len(models) + 1]
           kwarg  == classifier_kwarg(fe)
           front  == [kind |-> "extractor", output_shape |-> fe.output_shape]
           back   == [kind |-> "classifier", input_size |-> kwarg.input_size]
       IN IF accepts(classifier, kwarg)
            THEN /\ models' = Append(models,
                        SequentialSaveableModel(<< <<front, fe.name>>,
                                                   <<back, classifier_name>> >>))
                 /\ UNCHANGED gen_pc
            ELSE /\ gen_pc' = "raised"
                 /\ UNCHANGED models
    /\ UNCHANGED <<feature_extractions, classifier, classifier_name>>
    /\ UNCHANGED <<trainVars, saveVars, histVars, splitVars, forward_calls, mainVars>>

\* line 157: return models
GenerateReturn ==
    /\ gen_pc = "loop"
    /\ Len(models) = Len(feature_extractions)
    /\ gen_pc' = "returned"
    /\ UNCHANGED <<feature_extractions, classifier, classifier_name, models>>
    /\ UNCHANGED <<trainVars, saveVars, histVars, splitVars, forward_calls, mainVars>>

GenNext ==
    \/ GenerateOne
    \/ GenerateReturn

GenSpec == GenInit /\ [][GenNext]_vars

\* ------------------------------------------------- datasets.py: splitting
Range(f) == {f[i] : i \in DOMAIN f}

\* seq[a:b] of Python for 0 <= a, b <= len(seq); positions are 0-based
Slice(seq, a, b) == [i \in 1 .. (IF b > a THEN b - a ELSE 0) |-> seq[a + i]]

\* the orders a shuffle (randperm, np.random.shuffle) may leave S in
RECURSIVE Orders(_)
Orders(S) ==
    IF S = {} THEN {<< >>}
    ELSE UNION {{<<x>> \o rest : rest \in Orders(S \ {x})} : x \in S}

\* ESCDataset.__len__
ESCDataset_len(ds) ==
    IF ds.categories = "TEN"
      THEN Cardinality({i \in 1 .. Len(ds.csv) : ds.csv[i]})
      ELSE Len(ds.csv)

\* ESCDatasetBin.__len__: the rows of the table whose index is in train_index
ESCDatasetBin_len(ds) ==
    Cardinality({i \in 0 .. ds.rows - 1 : i \in Range(ds.train_index)})

\* int(percentage * len(self)) for a percentage num / PctDen
int_of(num, n) == (num * n) \div PctDen

\* SplitableDataset.train_test_split, lines 80-82: [train, valid, test] sizes
split_sizes_by_percentage(ds, n) ==
    <<int_of(ds.train_percentage, n),
      int_of(PctDen - ds.train_percentage - ds.test_percentage, n),
      int_of(ds.test_percentage, n)>>
split_sizes(ds, n) ==
    <<int_of(ds.train_percentage, n),
      n - int_of(ds.train_percentage, n) - int_of(ds.test_percentage, n),
      int_of(ds.test_percentage, n)>>

\* len(DataLoader(dataset, batch_size)): ceil(len(dataset) / batch_size)
DataLoader_len(size, batch_size) == (size + batch_size - 1) \div batch_size

\* where the valid/test halves meet: len(val_test_indices) // 2
half(n) == n \div 2

Sizes(sp) == <<Len(sp.train), Len(sp.valid), Len(sp.test)>>

ProportionalDatasets ==
    [policy : {"proportional"},
     categories : {"TEN", "FIFTY"},
     csv : UNION {[1 .. k -> BOOLEAN] : k \in 0 .. MaxRows},
     train_percentage : 0 .. PctDen,
     test_percentage : 0 .. PctDen]

ExplicitDatasets ==
    [policy : {"explicit"},
     rows : 0 .. MaxRows,
     train_index : UNION {[1 .. k -> 0 .. MaxRows] : k \in 0 .. MaxTrainIdx}]

SplitInit ==
    /\ TrainIdle
    /\ name = ""
    /\ params = 0
    /\ dir_exists = FALSE
    /\ files = << >>
    /\ save_log = << >>
    /\ GenIdle
    /\ dataset \in ProportionalDatasets \cup ExplicitDatasets
    /\ split = [train |-> << >>, valid |-> << >>, test |-> << >>]
    /\ split_pc = "new"
    /\ split_loaders = [train |-> 0, valid |-> 0, test |-> 0]
    /\ prev_sizes = << >>
    /\ get_result = [index |-> 0, outcome |-> "none"]
    /\ MainIdle

\* SplitableDataset.train_test_split (lines 72-90).  random_split raises a
\* ValueError unless the lengths sum to len(self), draws a permutation of the
\* indices 0 .. len(self)-1 and cuts it at the accumulated lengths
\* (indices[offset - length : offset]).  A negative valid length (percentages
\* summing to more than 1) is cut the same way; on a one-row dataset torch
\* releases that read lengths summing to 1 as fractions reject it.
TrainTestSplit ==
    /\ dataset.policy = "proportional"
    /\ split_pc \in {"new", "split"}
    /\ LET n     == ESCDataset_len(dataset)
           sizes == split_sizes(dataset, n)
           o1    == sizes[1]
           o2    == sizes[1] + sizes[2]
           o3    == sizes[1] + sizes[2] + sizes[3]
       IN \/ /\ o3 # n \/ (sizes[2] < 0 /\ n = 1)
             /\ split_pc' = "raised"
             /\ UNCHANGED <<split, prev_sizes>>
          \/ /\ o3 = n
             /\ \E indices \in Orders(0 .. n - 1) :
                   split' = [train |-> Slice(indices, o1 - sizes[1], o1),
                             valid |-> Slice(indices, o2 - sizes[2], o2),
                             test  |-> Slice(indices, o3 - sizes[3], o3)]
             /\ prev_sizes' = IF split_pc = "split" THEN Sizes(split) ELSE << >>
             /\ split_pc' = "split"
    /\ UNCHANGED <<dataset, split_loaders, get_result>>
    /\ UNCHANGED <<trainVars, saveVars, histVars, genVars, forward_calls, mainVars>>

\* SplitableDatasetBin.train_test_split (lines 112-132): train is train_index
\* as given; the rows not in train_index are shuffled and halved
TrainTestSplitBin ==
    /\ dataset.policy = "explicit"
    /\ split_pc \in {"new", "split"}
    /\ LET rest == {i \in 0 .. dataset.rows - 1 : i \notin Range(dataset.train_index)}
       IN \E val_test_indices \in Orders(rest) :
             split' = [train |-> dataset.train_index,
                       valid |-> Slice(val_test_indices, 0, half(Len(val_test_indices))),
                       test  |-> Slice(val_test_indices, half(Len(val_test_indices)),
                                       Len(val_test_indices))]
    /\ prev_sizes' = IF split_pc = "split" THEN Sizes(split) ELSE << >>
    /\ split_pc' = "split"
    /\ UNCHANGED <<dataset, split_loaders, get_result>>
    /\ UNCHANGED <<trainVars, saveVars, histVars, genVars, forward_calls, mainVars>>

\* TrainValidTestDataset.into_loaders (lines 36-56)
IntoLoaders ==
    /\ split_pc = "split"
    /\ \E batch_size \in {1, 2, BATCH_SIZE} :
          split_loaders' = [train |-> DataLoader_len(Len(split.train), batch_size),
                            valid |-> DataLoader_len(Len(split.valid), batch_size),
                            test  |-> DataLoader_len(Len(split.test), batch_size)]
    /\ split_pc' = "loaded"
    /\ UNCHANGED <<dataset, split, prev_sizes, get_result>>
    /\ UNCHANGED <<trainVars, saveVars, histVars, genVars, forward_calls, mainVars>>

\* DataFrame.iloc[index, col] on a table of n rows: positions -n .. n-1 are
\* served (a negative one counts from the end), any other is an IndexError
iloc(n, index) ==
    IF 0 <= index /\ index < n THEN [outcome |-> "sample", row |-> index]
    ELSE IF -n <= index /\ index < 0 THEN [outcome |-> "sample", row |-> n + index]
    ELSE [outcome |-> "IndexError", row |-> 0]

\* DataFrame.loc[index, col] on a table with the default labels 0 .. n-1: a
\* label that is not there is a KeyError
loc(n, index) ==
    IF 0 <= index /\ index < n THEN [outcome |-> "sample", row |-> index]
    ELSE [outcome |-> "KeyError", row |-> 0]

\* ESCDataset.__getitem__ (lines 251-269): the file name and the label are
\* read with iloc from the whole table, whatever self.categories is
ESCDataset_getitem(ds, index) == iloc(Len(ds.csv), index)

\* ESCDatasetBin.__getitem__ (lines 372-390): the file name is read with loc
\* (lines 325-338), then the label with iloc
ESCDatasetBin_getitem(ds, index) ==
    IF loc(ds.rows, index).outcome # "sample" THEN loc(ds.rows, index)
    ELSE iloc(ds.rows, index)

\* len(dataset) and dataset[index] of either variant
dataset_len(ds) ==
    IF ds.policy = "proportional" THEN ESCDataset_len(ds) ELSE ESCDatasetBin_len(ds)
dataset_getitem(ds, index) ==
    IF ds.policy = "proportional" THEN ESCDataset_getitem(ds, index)
    ELSE ESCDatasetBin_getitem(ds, index)

\* the indices a caller may pass to dataset[index]
GetIndices == (0 - MaxRows - 1) .. (MaxRows + 1)

\* dataset[index] on the constructed dataset; the audio files the table
\* names are taken to be present and sampled at 44100 Hz
GetItem ==
    /\ split_pc = "new"
    /\ \E index \in GetIndices :
          get_result' = [index |-> index,
                         outcome |-> dataset_getitem(dataset, index).outcome]
    /\ split_pc' = "got"
    /\ UNCHANGED <<dataset, split, split_loaders, prev_sizes>>
    /\ UNCHANGED <<trainVars, saveVars, histVars, genVars, forward_calls, mainVars>>

SplitNext ==
    \/ TrainTestSplit
    \/ TrainTestSplitBin
    \/ IntoLoaders
    \/ GetItem

SplitSpec == SplitInit /\ [][SplitNext]_vars

\* ----------------------------------------------------------------- main.py
\* def generate_models(feature_extractions, classifier, classifier_name)
GenerateModelsParams == <<"feature_extractions", "classifier", "classifier_name">>

\* the call of line 26: three positional arguments and approach=APPROACH
MainCall == [positional |-> 3, keywords |-> {"approach"}]

\* Python's argument binding for parameters without defaults: the positional
\* arguments fill the first parameters, the keywords must name exactly the
\* parameters left; anything else is a TypeError
binds(parameters, call) ==
    /\ call.positional <= Len(parameters)
    /\ call.keywords = {parameters[i] : i \in call.positional + 1 .. Len(parameters)}

\* the script before its first statement.  feature_extractions, classifier
\* and classifier_name hold what line 26 passes: the one-entry dict
\* {'crnn_pretrained': CRNNPretrainedFeature}, MlpPostCrnnPetrained and its
\* name; the extractor's output_shape and the classifier's __init__ keywords
\* are those of classes defined outside models.py
MainInit ==
    /\ TrainIdle
    /\ name = ""
    /\ params = 0
    /\ dir_exists = FALSE
    /\ files = << >>
    /\ save_log = << >>
    /\ SplitIdle
    /\ \E shape \in Shapes :
          feature_extractions = <<[name |-> "crnn_pretrained", output_shape |-> shape]>>
    /\ classifier \in ClassifierClasses
    /\ classifier_name = "MPL_post_petrained_CRNN"
    /\ models = << >>
    /\ gen_pc = "idle"
    /\ main_pc = "start"
    /\ main_error = "none"
    /\ train_calls = << >>

\* lines 12-19: APPROACH is ESC.TWO, so the dataset is
\* ESCDatasetBin(download=False, train_index=list(range(2744))), which reads
\* the annotation table
MainLoadDataset ==
    /\ main_pc = "start"
    /\ \E rows \in 0 .. MaxRows :
          dataset' = [policy |-> "explicit", rows |-> rows,
                      train_index |-> [i \in 1 .. TrainIndexLen |-> i - 1]]
    /\ split_pc' = "new"
    /\ main_pc' = "dataset"
    /\ UNCHANGED <<split, split_loaders, prev_sizes, get_result>>
    /\ UNCHANGED <<main_error, train_calls>>
    /\ UNCHANGED <<trainVars, saveVars, histVars, genVars, forward_calls>>

\* line 26: models = generate_models(..., approach=APPROACH).  The call is
\* bound to the parameters of generate_models before its body runs.
MainGenerate ==
    /\ main_pc = "dataset"
    /\ IF binds(GenerateModelsParams, MainCall)
          THEN /\ gen_pc' = "loop"
               /\ main_pc' = "generate"
               /\ UNCHANGED main_error
          ELSE /\ main_error' = "TypeError"
               /\ main_pc' = "raised"
               /\ UNCHANGED gen_pc
    /\ UNCHANGED <<feature_extractions, classifier, classifier_name, models>>
    /\ UNCHANGED train_calls
    /\ UNCHANGED <<trainVars, saveVars, histVars, splitVars, forward_calls>>

\* lines 30-34 (the split, the loaders and the train loop) follow a
\* generate_models call that returned
MainNext ==
    \/ MainLoadDataset
    \/ MainGenerate

MainSpec == MainInit /\ [][MainNext]_vars

\* ================================================================ claims

Terminal == pc \in {"done", "aborted"}

\* epochs whose early-stopping check has run, when the run is between epochs
\* or past the loop
BetweenEpochs == pc \in {"for_epoch", "after_loop", "done"} /\ epoch # NoEpoch

\* C1: starting from a counter of 0 (the start of the run, or the epoch
\* last_reset whose accuracy moved by eps or more), six consecutive epochs
\* whose validation accuracy stays within eps of the preceding epoch's stop
\* the engine exactly at the sixth: not before, no later epoch runs, and the
\* one checkpoint left is tagged with that epoch.
C1_EarlyStopAtSixth ==
    /\ stopped_early =>
          /\ pc \in {"after_loop", "done"}
          /\ epoch = last_reset + PatienceLimit + 1
          /\ optimizer_steps = (epoch + 1) * loaders.train
          /\ DOMAIN files = {save_path(name, epoch)}
          /\ \A i \in 1 .. Len(save_log) : save_log[i].epoch = epoch
    /\ (BetweenEpochs /\ ~stopped_early) => epoch - last_reset <= PatienceLimit

C1_Witness ==
    /\ pc = "done"
    /\ stopped_early
    /\ last_reset >= 0
    /\ epoch = last_reset + 6

\* C2: for every epoch cap, a run without early stop and without a failing
\* batch computation runs epochs 0 .. epochs-1, saves the checkpoint of epoch
\* epochs-1 and ends in StoppedByMaxEpochs.
C2_RunsAllEpochs ==
    (/\ Terminal
     /\ ~stopped_early
     /\ loaders.train > 0
     /\ loaders.valid > 0
     /\ error \notin {"ComputationError", "OptimizerError"})
    => /\ pc = "done"
       /\ optimizer_steps = epochs * loaders.train
       /\ DOMAIN files = {save_path(name, epochs - 1)}

\* C3: a train run over loaders whose validation loader is empty reaches a
\* terminal state without raising (only a failing batch computation aborts).
C3_EmptyLoadersTolerated ==
    (/\ loaders.train > 0
     /\ loaders.valid = 0
     /\ epochs \in 1 .. SchedulerEpochs
     /\ pc = "aborted")
    => error \in {"ComputationError", "OptimizerError", "SchedulerValueError"}

\* C7: a save call is made only once the epoch loop is over, never while a
\* batch loop is in progress, and a run aborted by a batch computation, an
\* optimizer step or a scheduler step has made no save call.
C7_SaveOnlyAtLoopExit ==
    /\ (save_log # << >> \/ files # << >>) => pc \in {"after_loop", "done"}
    /\ pc = "aborted" => (save_log = << >> /\ files = << >> /\ notices.saved = 0)

C7_Witness ==
    /\ pc = "aborted"
    /\ error \in {"ComputationError", "OptimizerError", "SchedulerValueError"}
    /\ epoch >= 1
    /\ save_log = << >>

\* C8: the scheduler's step budget is epochs * len(loaders.train), and the
\* one step per train batch never exceeds it.
C8_SchedulerBudget ==
    /\ (pc \notin {"start", "aborted"}) => scheduler_total = epochs * loaders.train
    /\ scheduler_steps <= epochs * loaders.train
    /\ error # "SchedulerValueError"

\* the index of the last save call made for the key (n, e)
LastCall(n, e) ==
    CHOOSE j \in 1 .. Len(save_log) :
        /\ save_log[j].name = n /\ save_log[j].epoch = e
        /\ \A k \in (j + 1) .. Len(save_log) :
              ~(save_log[k].name = n /\ save_log[k].epoch = e)

SavedKeys == {<<save_log[i].name, save_log[i].epoch>> : i \in 1 .. Len(save_log)}

\* C10: save(epoch) writes the parameter state to
\* models_saved/<name>_<epoch>.pth and creates the directory; there is one
\* file per saved (name, epoch), holding the parameter state of the last save
\* call for that key, whatever was saved under other keys in between.
C10_SaveOverwritesOwnKey ==
    /\ save_log # << >> => dir_exists
    /\ Cardinality(DOMAIN files) = Cardinality(SavedKeys)
    /\ \A i \in 1 .. Len(save_log) :
          LET n == save_log[i].name
              e == save_log[i].epoch
          IN /\ save_path(n, e) \in DOMAIN files
             /\ files[save_path(n, e)] = save_log[LastCall(n, e)].params
    /\ \A i \in 1 .. Len(save_log) :
          /\ (save_log[i].name = "cnn" /\ save_log[i].epoch = 10)
                => "models_saved/cnn_10.pth" \in DOMAIN files
          /\ (save_log[i].name = "cnn_1" /\ save_log[i].epoch = 0)
                => "models_saved/cnn_1_0.pth" \in DOMAIN files

C10_Witness ==
    /\ Len(save_log) = 2
    /\ save_log[1].name = save_log[2].name
    /\ save_log[1].epoch = save_log[2].epoch
    /\ save_log[1].params # save_log[2].params
    /\ DOMAIN files = {save_path(save_log[2].name, save_log[2].epoch)}
    /\ files[save_path(save_log[2].name, save_log[2].epoch)] = save_log[2].params

\* C9: generate_models returns one model per extractor, in the dict's order;
\* each is [extractor, classifier] with the classifier's input_size the
\* extractor's output_shape and the name "<extractor name>_<classifier_name>";
\* no forward pass runs; a classifier whose __init__ does not take input_size
\* fails when the first model is constructed.
C9_GenerateModels ==
    /\ forward_calls = 0
    /\ Len(models) <= Len(feature_extractions)
    /\ gen_pc = "returned" => Len(models) = Len(feature_extractions)
    /\ \A i \in 1 .. Len(models) :
          LET fe == feature_extractions[i]
          IN /\ models[i].stages =
                   << [kind |-> "extractor", output_shape |-> fe.output_shape],
                      [kind |-> "classifier", input_size |-> fe.output_shape] >>
             /\ models[i].name = fe.name \o "_" \o classifier_name
             /\ (fe.name = "spectrogram" /\ classifier_name = "cnn_bardou")
                   => models[i].name = "spectrogram_cnn_bardou"
    /\ ("input_size" \notin classifier /\ feature_extractions # << >>)
          => (gen_pc # "returned" /\ models = << >>)

C9_Witness ==
    /\ gen_pc = "returned"
    /\ Len(models) = 2
    /\ models[1].stages[2].input_size = <<1, 2>>
    /\ models[2].stages[2].input_size = <<2, 1>>
    /\ models[1].name = "mel_spectrogram_crnn_zhang"

HasSplit == split_pc \in {"split", "loaded"}

NoRepeats(seq) == \A i, j \in 1 .. Len(seq) : i # j => seq[i] # seq[j]

Partitions(sp, all) ==
    /\ NoRepeats(sp.train) /\ NoRepeats(sp.valid) /\ NoRepeats(sp.test)
    /\ Range(sp.train) \cap Range(sp.valid) = {}
    /\ Range(sp.train) \cap Range(sp.test) = {}
    /\ Range(sp.valid) \cap Range(sp.test) = {}
    /\ Range(sp.train) \cup Range(sp.valid) \cup Range(sp.test) = all

\* C4: proportional policy with p_train + p_test <= 1: the split succeeds with
\* len(train) = floor(p_train * len(D)), len(test) = floor(p_test * len(D)),
\* len(valid) the rest; the three index sets partition 0 .. len(D)-1; a
\* repeated call yields the same three sizes.
C4_ProportionalSplit ==
    (/\ dataset.policy = "proportional"
     /\ dataset.train_percentage + dataset.test_percentage <= PctDen)
    => /\ split_pc # "raised"
       /\ HasSplit =>
            LET n == ESCDataset_len(dataset)
            IN /\ Len(split.train) = (dataset.train_percentage * n) \div PctDen
               /\ Len(split.test) = (dataset.test_percentage * n) \div PctDen
               /\ Len(split.valid) = n - Len(split.train) - Len(split.test)
               /\ Partitions(split, 0 .. n - 1)
               /\ prev_sizes # << >> => prev_sizes = Sizes(split)

C4_Witness ==
    /\ dataset.policy = "proportional"
    /\ dataset.train_percentage + dataset.test_percentage <= PctDen
    /\ HasSplit
    /\ prev_sizes # << >>
    /\ (dataset.train_percentage * ESCDataset_len(dataset)) % PctDen # 0
    /\ Len(split.train) >= 1 /\ Len(split.valid) >= 1 /\ Len(split.test) >= 1

\* a train_index that lists rows of the table, each once
WellFormedTrainIndex ==
    /\ NoRepeats(dataset.train_index)
    /\ Range(dataset.train_index) \subseteq 0 .. dataset.rows - 1

\* C5: explicit-index policy, train_idx of size k, dataset size n = len(D):
\* len(train) = k, len(valid) + len(test) = n - k, |len(valid) - len(test)| <= 1.
\* Stated for a train_idx that lists rows of the table, each once.
C5_ExplicitSizes ==
    (/\ dataset.policy = "explicit"
     /\ HasSplit
     /\ WellFormedTrainIndex
     /\ dataset.train_index # << >>)
    => LET k == Len(dataset.train_index)
           n == ESCDatasetBin_len(dataset)
       IN /\ Len(split.train) = k
          /\ Len(split.valid) + Len(split.test) = n - k
          /\ Abs(Len(split.valid) - Len(split.test)) <= 1

\* C6: explicit-index policy, any train_idx: no split repeats an index, the
\* three are pairwise disjoint and together hold exactly the rows' indices.
\* Stated for the train_idx whose entries are all rows of the table.
C6_ExplicitPartition ==
    (/\ dataset.policy = "explicit"
     /\ HasSplit
     /\ Range(dataset.train_index) \subseteq 0 .. dataset.rows - 1)
    => Partitions(split, 0 .. dataset.rows - 1)


\* every index the last split placed in train, valid or test
SplitIndices == Range(split.train) \cup Range(split.valid) \cup Range(split.test)

\* C11: for both dataset variants dataset[index] fails with a lookup error
\* for every index outside [0, len(dataset)) and returns a sample for every
\* index inside it, and every index a split holds lies inside
\* [0, len(dataset)).  Stated here for the non-negative indices only.
C11_GetItemBounds ==
    /\ (split_pc = "got" /\ get_result.index >= 0) =>
          IF get_result.index < dataset_len(dataset)
            THEN get_result.outcome = "sample"
            ELSE get_result.outcome \in {"IndexError", "KeyError"}
    /\ HasSplit => \A i \in SplitIndices : 0 <= i /\ i < dataset_len(dataset)

\* the train batches begun and finished so far in the run: those of the
\* completed train phases plus batch_num of the phase in progress
TrainBatchesDone ==
    IF pc = "train_batch" THEN epoch * loaders.train + batch_num
    ELSE (epoch + 1) * loaders.train

\* C12: the optimizer and the scheduler are each stepped once per train batch,
\* the optimizer first, and never in the validation phase: at every point of
\* a run both counts equal the number of train batches done, so e completed
\* epochs leave both at e * len(loaders.train); a run that a batch aborted
\* has the optimizer at most one step ahead, and only when it was
\* scheduler.step() that raised.
C12_StepsPerTrainBatch ==
    /\ pc \in {"for_epoch", "train_batch", "valid_batch", "early_stopping",
               "after_loop", "done"} =>
          /\ optimizer_steps = TrainBatchesDone
          /\ scheduler_steps = TrainBatchesDone
    /\ (pc = "aborted" /\ error # "SchedulerValueError") =>
          optimizer_steps = scheduler_steps
    /\ (pc = "aborted" /\ error = "SchedulerValueError") =>
          optimizer_steps = scheduler_steps + 1

\* a run of several epochs with two train batches and a validation phase each
\* has returned
C12_Witness ==
    /\ pc = "done"
    /\ epoch >= 2
    /\ loaders.train = 2
    /\ loaders.valid = 2
    /\ optimizer_steps = 2 * (epoch + 1)
    /\ scheduler_steps = 2 * (epoch + 1)

\* C13: after the early-stopping check of an epoch the no-change counter is
\* the number of most recent consecutive epochs whose validation accuracy is
\* strictly within eps of the accuracy of the epoch just before (0.0 before
\* epoch 0): the epochs after last_reset, the last one that moved by eps or
\* more, which leaves the counter at 0.  The check compares against that
\* preceding accuracy, and the loop goes on exactly while the counter is <= 5.
C13_NoChangeCounter ==
    /\ BetweenEpochs =>
          /\ count_occurence_no_change = epoch - last_reset
          /\ last_reset = epoch => count_occurence_no_change = 0
          /\ stopped_early <=> count_occurence_no_change > PatienceLimit
    /\ pc = "early_stopping" =>
          /\ previous_val_accuracy = acc_trace[1]
          /\ val_accuracy = acc_trace[2]
          /\ epoch = 0 => previous_val_accuracy = 0
    /\ pc \in {"for_epoch", "train_batch", "valid_batch", "early_stopping"} =>
          count_occurence_no_change <= PatienceLimit

\* the check of epoch 3 has run: epoch 1 moved by eps or more, epochs 2 and 3
\* did not, and the accuracy they stay at is not the highest possible
C13_Witness ==
    /\ pc = "for_epoch"
    /\ epoch = 3
    /\ last_reset = 1
    /\ count_occurence_no_change = 2
    /\ previous_val_accuracy < loaders.valid * MaxAcc

\* C14: a train run that ends, by the early stop or by running out of
\* epochs, has called model.save once and has sent the "Model saved" and
\* the "FINISHED TRAINING" notice once each.
C14_SaveOncePerRun ==
    pc = "done" =>
       /\ Len(save_log) = 1
       /\ notices = [saved |-> 1, finished |-> 1]

\* C15: in the launch script model generation succeeds for the configured
\* extractor and classifier, and train is then called once per generated
\* model, in list order, every call with the one loaders object.
C15_HarnessTrainsEachModel ==
    /\ main_pc \notin {"start", "dataset"} =>
          /\ main_error = "none"
          /\ gen_pc \in {"loop", "returned"}
    /\ main_pc = "finished" =>
          /\ gen_pc = "returned"
          /\ train_calls = [i \in 1 .. Len(models) |->
                               [model |-> models[i].name, loaders |-> split_loaders]]
====
